---- MODULE Spec2Model ----
(***************************************************************************)
(* Model of feeds/views.py: the feed fetch-cache-translate pipeline.       *)
(*                                                                         *)
(* Python values are tagged records [t, v]; a JSON text is a sequence of   *)
(* tokens [k, v]; a dict is a function from label strings to lists.        *)
(* Every aggregate call (get_all_feeds under show_feeds) owns one event    *)
(* loop; the coroutines of one call interleave only at their awaits.       *)
(***************************************************************************)
EXTENDS Integers, Sequences, FiniteSets, TLC

\* ------------------------------------------------------------- bounds
\* Longest URL list handed to one get_all_feeds call.
MaxUrls == 2
\* Total number of get_feed_data coroutines over all calls of one behaviour.
MaxTasks == 2

\* ------------------------------------------------------ Python values
None == [t |-> "NoneType", v |-> "None"]
Int0 == [t |-> "int", v |-> "0"]
Str(s) == [t |-> "str", v |-> s]
EmptyTuple == [t |-> "tuple", v |-> "()"]
IsStr(x) == x.t = "str"

\* Python truth value of a scalar ("if last_modified:", "if not feed_data:").
Truthy(x) ==
    CASE x.t = "NoneType" -> FALSE
      [] x.t = "int" -> x.v # "0"
      [] x.t = "str" -> x.v # ""
      [] x.t = "tuple" -> x.v # "()"
      [] OTHER -> TRUE

EmptyDict == <<>>
\* dict.update(other): keys of other overwrite.
DictUpdate(d, other) == other @@ d
DictSet_Skip(d, key, value) == d

\* d[key] = value
DictSet(d, key, value) == (key :> value) @@ d

CONFIG_DIR == "Data"

\* ---------------------------------------------------------------- URLs
\* A URL is a sequence of text pieces; the pattern's literal parts are
\* single pieces.
Prefix == "https://www.reddit.com/r/"
DotRss == ".rss"
UrlA == <<Prefix, "LifeProTips", DotRss>>
UrlB == <<Prefix, "todayilearned", DotRss>>
\* No match: the group (.+) needs at least one character.
UrlBad == <<Prefix, DotRss>>
URLS == {UrlA, UrlB, UrlBad}

NoMatch == <<>>
\* re.match(r'https://www.reddit.com/r/(.+)\.rss', feed_url): anchored at the
\* start only, (.+) greedy, so the group ends before the last ".rss".
ReMatch(feed_url) ==
    IF Len(feed_url) >= 3 /\ feed_url[1] = Prefix
          /\ \E j \in 3..Len(feed_url) : feed_url[j] = DotRss
    THEN LET j == CHOOSE k \in 3..Len(feed_url) :
                    /\ feed_url[k] = DotRss
                    /\ \A m \in (k+1)..Len(feed_url) : feed_url[m] # DotRss
         IN  SubSeq(feed_url, 2, j - 1)
    ELSE NoMatch

\* match.group(1); match is None for a URL off the pattern, and None.group
\* raises AttributeError.
get_category_from_url(feed_url) ==
    IF ReMatch(feed_url) = NoMatch
    THEN [raised |-> TRUE, exc |-> "AttributeError", category |-> NoMatch]
    ELSE [raised |-> FALSE, exc |-> "", category |-> ReMatch(feed_url)]

\* pathlib.Path(CONFIG_DIR) / f"{category}.json"
get_config_path(feed_url) ==
    LET c == get_category_from_url(feed_url)
    IN  IF c.raised
        THEN [raised |-> TRUE, exc |-> c.exc, path |-> <<>>]
        ELSE [raised |-> FALSE, exc |-> "",
              path |-> <<CONFIG_DIR>> \o c.category \o <<".json">>]

PATHS == {get_config_path(u).path : u \in {w \in URLS : ~get_config_path(w).raised}}

\* ---------------------------------------------------------------- JSON
Punct(s) == [k |-> "punct", v |-> s]
JNull == [k |-> "null", v |-> "null"]
JString(s) == [k |-> "string", v |-> s]
JNumber(s) == [k |-> "number", v |-> s]

DumpScalar_Str(x) ==
    CASE x.t = "int" -> <<JNumber(x.v)>>
      [] OTHER -> <<JString(x.v)>>

\* json.dumps of a scalar.
DumpScalar(x) ==
    CASE x.t = "NoneType" -> <<JNull>>
      [] x.t = "int" -> <<JNumber(x.v)>>
      [] OTHER -> <<JString(x.v)>>

DumpEntry(e) ==
    <<Punct("{"), JString("title"), Punct(":")>> \o DumpScalar(e.title)
    \o <<Punct(","), JString("updated"), Punct(":")>> \o DumpScalar(e.updated)
    \o <<Punct(","), JString("link"), Punct(":")>> \o DumpScalar(e.link)
    \o <<Punct("}")>>

RECURSIVE DumpList(_)
DumpList(l) ==
    IF Len(l) = 0 THEN <<>>
    ELSE IF Len(l) = 1 THEN DumpEntry(l[1])
    ELSE DumpEntry(l[1]) \o <<Punct(",")>> \o DumpList(Tail(l))

RECURSIVE DumpPairs(_, _)
DumpPairs(d, keys) ==
    IF keys = {} THEN <<>>
    ELSE LET key == CHOOSE x \in keys : TRUE
             rest == keys \ {key}
         IN  <<JString(key), Punct(":"), Punct("[")>> \o DumpList(d[key])
             \o <<Punct("]")>>
             \o (IF rest = {} THEN <<>> ELSE <<Punct(",")>>)
             \o DumpPairs(d, rest)

DumpDict(d) == <<Punct("{")>> \o DumpPairs(d, DOMAIN d) \o <<Punct("}")>>

\* json.dump({"last_modified": .., "etag": .., "post_dict": ..}, f)
JsonDump(last_modified, etag, post_dict) ==
    <<Punct("{"), JString("last_modified"), Punct(":")>> \o DumpScalar(last_modified)
    \o <<Punct(","), JString("etag"), Punct(":")>> \o DumpScalar(etag)
    \o <<Punct(","), JString("post_dict"), Punct(":")>> \o DumpDict(post_dict)
    \o <<Punct("}")>>

\* json.load: a recursive-descent reading of the token sequence.  A dict is
\* read into a function, a list into a sequence, a scalar into a Python value.
JFail == [ok |-> FALSE, val |-> None, next |-> 0]
RECURSIVE ParseValue(_, _)
RECURSIVE ParseMembers(_, _, _)
RECURSIVE ParseElements(_, _, _)
RECURSIVE MembersAfter(_, _, _, _)
RECURSIVE ElementsAfter(_, _, _)
ParseValue(toks, i) ==
    IF i > Len(toks) THEN JFail
    ELSE LET tk == toks[i]
         IN  CASE tk.k = "null" -> [ok |-> TRUE, val |-> None, next |-> i + 1]
               [] tk.k = "string" -> [ok |-> TRUE, val |-> Str(tk.v), next |-> i + 1]
               [] tk.k = "number" ->
                    [ok |-> TRUE, val |-> [t |-> "int", v |-> tk.v], next |-> i + 1]
               [] tk = Punct("{") ->
                    IF i + 1 <= Len(toks) /\ toks[i + 1] = Punct("}")
                    THEN [ok |-> TRUE, val |-> EmptyDict, next |-> i + 2]
                    ELSE ParseMembers(toks, i + 1, EmptyDict)
               [] tk = Punct("[") ->
                    IF i + 1 <= Len(toks) /\ toks[i + 1] = Punct("]")
                    THEN [ok |-> TRUE, val |-> <<>>, next |-> i + 2]
                    ELSE ParseElements(toks, i + 1, <<>>)
               [] OTHER -> JFail

\* The rest of an object once the value r of the member at i is parsed.
MembersAfter(toks, i, acc, r) ==
    IF ~r.ok \/ r.next > Len(toks) THEN JFail
    ELSE LET acc2 == DictSet(acc, toks[i].v, r.val)
         IN  IF toks[r.next] = Punct("}")
             THEN [ok |-> TRUE, val |-> acc2, next |-> r.next + 1]
             ELSE IF toks[r.next] = Punct(",")
             THEN ParseMembers(toks, r.next + 1, acc2)
             ELSE JFail

ParseMembers(toks, i, acc) ==
    IF i + 2 > Len(toks) \/ toks[i].k # "string" \/ toks[i + 1] # Punct(":")
    THEN JFail
    ELSE CHOOSE out \in {MembersAfter(toks, i, acc, r) :
                            r \in {ParseValue(toks, i + 2)}} : TRUE

\* The rest of an array once its element r is parsed.
ElementsAfter(toks, acc, r) ==
    IF ~r.ok \/ r.next > Len(toks) THEN JFail
    ELSE LET acc2 == Append(acc, r.val)
         IN  IF toks[r.next] = Punct("]")
             THEN [ok |-> TRUE, val |-> acc2, next |-> r.next + 1]
             ELSE IF toks[r.next] = Punct(",")
             THEN ParseElements(toks, r.next + 1, acc2)
             ELSE JFail

ParseElements(toks, i, acc) ==
    CHOOSE out \in {ElementsAfter(toks, acc, r) : r \in {ParseValue(toks, i)}} : TRUE

\* json.load(f): the whole text must be one value ("Extra data" otherwise).
JsonLoad(toks) ==
    CHOOSE out \in
        { IF r.ok /\ r.next = Len(text) + 1
          THEN [raised |-> FALSE, exc |-> "", val |-> r.val]
          ELSE [raised |-> TRUE, exc |-> "JSONDecodeError", val |-> None] :
            <<text, r>> \in {<<text, ParseValue(text, 1)>> : text \in {toks}} } : TRUE

\* config.get(key, default)
DictGet(d, key, default) == IF key \in DOMAIN d THEN d[key] ELSE default

\* ---------------------------------------------------------- ConfigStore
NoFile == [exists |-> FALSE, data |-> <<>>]

LoadRaise(e) ==
    [raised |-> TRUE, exc |-> e, post_dict |-> EmptyDict,
     last_modified |-> None, etag |-> None]

NoRecord_Raise == LoadRaise("FileNotFoundError")

\* "if not config_path.exists(): return {}, (0, 0)"
NoRecord ==
    [raised |-> FALSE, exc |-> "", post_dict |-> EmptyDict,
     last_modified |-> Int0, etag |-> Int0]

\* Lines 45-50: what load_config makes of config, the value j that json.load
\* read from the text of the file.
ConfigOf(text, j) ==
    IF j.raised THEN LoadRaise(j.exc)
    ELSE IF text[1] # Punct("{") THEN LoadRaise("AttributeError")
    ELSE [raised |-> FALSE, exc |-> "",
          post_dict |-> DictGet(j.val, "post_dict", EmptyDict),
          last_modified |-> DictGet(j.val, "last_modified", None),
          etag |-> DictGet(j.val, "etag", None)]

\* load_config(feed_url) read against the file system fs.
load_config(fs, feed_url) ==
    LET p == get_config_path(feed_url)
    IN  IF p.raised THEN LoadRaise(p.exc)
        ELSE IF ~fs[p.path].exists THEN NoRecord
        ELSE CHOOSE out \in {ConfigOf(fs[p.path].data, j) :
                                j \in {JsonLoad(fs[p.path].data)}} : TRUE

\* open(config_path, "w"), after the Data directory is made when missing:
\* the file exists and is empty from here on.
OpenW(fs, path) == [fs EXCEPT ![path] = [exists |-> TRUE, data |-> <<>>]]

\* The buffered text reaches the file at offset 0 of this writer's handle,
\* over whatever the file holds by then.
WriteAt0(old, text) ==
    text \o (IF Len(old) > Len(text) THEN SubSeq(old, Len(text) + 1, Len(old)) ELSE <<>>)

\* json.dump(config, f) and the close at the end of the with block.
DumpAndClose(fs, path, last_modified, etag, post_dict) ==
    [fs EXCEPT ![path] =
        [exists |-> TRUE,
         data |-> WriteAt0(fs[path].data, JsonDump(last_modified, etag, post_dict))]]

\* save_config(feed_url, last_modified, etag, post_dict), start to end.
save_config(fs, feed_url, last_modified, etag, post_dict) ==
    LET p == get_config_path(feed_url)
    IN  IF p.raised THEN fs
        ELSE DumpAndClose(OpenW(fs, p.path), p.path, last_modified, etag, post_dict)

\* ------------------------------------------------------- collaborators
\* Source items as feedparser hands them over (title may be a non-string).
Item1 == [title |-> Str("hello"), updated |-> Str("2024-01-05T13:04:05+00:00"),
          link |-> Str("https://redd.it/1")]
Item2 == [title |-> None, updated |-> Str("2024-02-29T23:59:59+09:00"),
          link |-> Str("https://redd.it/2")]
Item3 == [title |-> Str("world"), updated |-> Str("2024-01-05T13:04:05+00:00"),
          link |-> Str("https://redd.it/3")]
ItemBad == [title |-> Str("late"), updated |-> Str("yesterday"),
            link |-> Str("https://redd.it/4")]

BodyFeedA == Str("<feed><category term=LifeProTips/> 2 entries")
BodyFeedB == Str("<feed> 1 entry, no category")
BodyBadDate == Str("<feed><category term=todayilearned/> 2 entries, bad date")
BodyFeedC == Str("<feed><category term=LifeProTips/> 2 entries, both titled")
BodyNoItems == Str("<feed><category term=LifeProTips/> 0 entries")
BodyError == Str("<html>Too Many Requests</html>")
BodyCrash == Str("<feed> the parser raises")
BodyEmpty == Str("")

NoCategory == ""
\* feedparser.parse(feed_data): the feed-level category (if any) and the items.
\* A body that is no feed at all parses to a feed without category or items.
FeedParse(body) ==
    CASE body = BodyFeedA ->
            [raised |-> FALSE, category |-> "LifeProTips", entries |-> <<Item1, Item2>>]
      [] body = BodyFeedB ->
            [raised |-> FALSE, category |-> NoCategory, entries |-> <<Item3>>]
      [] body = BodyBadDate ->
            [raised |-> FALSE, category |-> "todayilearned", entries |-> <<Item2, ItemBad>>]
      [] body = BodyFeedC ->
            [raised |-> FALSE, category |-> "LifeProTips", entries |-> <<Item3, Item1>>]
      [] body = BodyNoItems ->
            [raised |-> FALSE, category |-> "LifeProTips", entries |-> <<>>]
      [] body = BodyCrash ->
            [raised |-> TRUE, category |-> NoCategory, entries |-> <<>>]
      [] OTHER ->
            [raised |-> FALSE, category |-> NoCategory, entries |-> <<>>]

\* "r/" + feed_data.feed.category, "N/A" on AttributeError.
FeedLabel(feed) ==
    CASE feed.category = NoCategory -> "N/A"
      [] feed.category = "LifeProTips" -> "r/LifeProTips"
      [] feed.category = "todayilearned" -> "r/todayilearned"

\* translator.translate(title, "zh-CN").text when the service answers.
TranslatedText(title) ==
    CASE title.v = "hello" -> Str("ni hao")
      [] title.v = "world" -> Str("shi jie")
      [] title.v = "late" -> Str("chi dao")

\* datetime.fromisoformat(entry.updated).strftime("%Y/%m/%d %H:%M:%S"):
\* the offset is dropped, the wall-clock fields are kept; ValueError otherwise.
FormatDate(updated) ==
    CASE updated = Str("2024-01-05T13:04:05+00:00") ->
            [raised |-> FALSE, text |-> Str("2024/01/05 13:04:05")]
      [] updated = Str("2024-02-29T23:59:59+09:00") ->
            [raised |-> FALSE, text |-> Str("2024/02/29 23:59:59")]
      [] OTHER -> [raised |-> TRUE, text |-> None]

\* What session.get may bring back: a connection failure, or a status line,
\* a body and the Last-Modified and ETag response headers.
Resp(st, b, lm, et) == [kind |-> "response", status |-> st, body |-> b,
                        last_modified |-> lm, etag |-> et]
ClientError == [kind |-> "ClientError", status |-> 0, body |-> BodyEmpty,
                last_modified |-> None, etag |-> None]
LM1 == Str("Fri, 05 Jan 2024 13:04:05 GMT")
ET1 == Str("W/abc")
RESPONSES ==
    { ClientError,
      Resp(304, BodyEmpty, None, None),
      Resp(200, BodyFeedA, LM1, ET1),
      Resp(200, BodyFeedB, None, ET1),
      Resp(200, BodyBadDate, LM1, ET1),
      Resp(200, BodyCrash, None, None),
      Resp(500, BodyError, None, None) }

RequestHeaders_NotNone(last_modified, etag) ==
    (IF last_modified # None THEN {"If-Modified-Since"} ELSE {})
    \cup (IF etag # None THEN {"If-None-Match"} ELSE {})

\* fetch_feed_data: the request headers.
RequestHeaders(last_modified, etag) ==
    (IF Truthy(last_modified) THEN {"If-Modified-Since"} ELSE {})
    \cup (IF Truthy(etag) THEN {"If-None-Match"} ELSE {})

\* fetch_feed_data: what it returns for a response.
FetchReturn(r, last_modified, etag) ==
    IF r.status = 304
    THEN [feed_data |-> EmptyTuple, new_last_modified |-> last_modified,
          new_etag |-> etag]
    ELSE [feed_data |-> r.body, new_last_modified |-> r.last_modified,
          new_etag |-> r.etag]

\* ------------------------------------------------------- get_feed_data
\* One get_feed_data coroutine: its locals, where it is suspended (pc), and
\* a history of the calls it has made so far.
\*   pc: "start"      created by get_all_feeds, not yet run
\*       "fetch"      suspended in fetch_feed_data (request sent)
\*       "translate"  suspended in translate_title for entries[idx]
\*       "save"       inside save_config, file opened for writing
\*       "returned" / "raised"
\*   inflight: the items whose translate_title call is awaited
NewTask(feed_url) ==
    [url |-> feed_url, pc |-> "start",
     post_dict |-> EmptyDict, last_modified |-> None, etag |-> None,
     headers |-> {}, status |-> 0,
     new_last_modified |-> None, new_etag |-> None,
     feed_label |-> "", entries |-> <<>>, idx |-> 1, post_list |-> <<>>,
     result |-> EmptyDict, exc |-> "",
     cached |-> EmptyDict, hit |-> FALSE, requested |-> FALSE, parsed |-> FALSE,
     translated |-> 0, fellback |-> {}, inflight |-> {},
     opened |-> FALSE, written |-> FALSE]

Return(t, d) == [t EXCEPT !.pc = "returned", !.result = d]
Raise(t, e) == [t EXCEPT !.pc = "raised", !.exc = e]
Terminal(t) == t.pc \in {"returned", "raised"}

CacheHit_Never(post_dict) == FALSE

\* "if post_dict:" on the loaded mapping.
CacheHit(post_dict) == DOMAIN post_dict # {}

AfterLoad_FetchFirst(t, cfg) ==
    LET sent == [t EXCEPT !.requested = TRUE, !.cached = cfg.post_dict]
    IN  IF cfg.raised THEN Raise(sent, cfg.exc)
        ELSE [sent EXCEPT !.pc = "fetch",
                          !.post_dict = cfg.post_dict,
                          !.last_modified = cfg.last_modified,
                          !.etag = cfg.etag,
                          !.headers = RequestHeaders(cfg.last_modified, cfg.etag)]

\* Lines 93-101 with cfg, what load_config returned or raised.
AfterLoad(t, cfg) ==
    IF cfg.raised THEN Raise(t, cfg.exc)
    ELSE LET t1 == [t EXCEPT !.post_dict = cfg.post_dict,
                             !.last_modified = cfg.last_modified,
                             !.etag = cfg.etag,
                             !.cached = cfg.post_dict]
         IN  IF CacheHit(cfg.post_dict)
             THEN Return([t1 EXCEPT !.hit = TRUE], cfg.post_dict)
             ELSE [t1 EXCEPT !.pc = "fetch", !.requested = TRUE,
                             !.headers = RequestHeaders(cfg.last_modified, cfg.etag)]

\* Lines 90-101: load the record, return it on a cache hit, else send the
\* conditional request.
OnStart(t, fs) ==
    CHOOSE out \in {AfterLoad(t, cfg) : cfg \in {load_config(fs, t.url)}} : TRUE

TitleOnError_Dropped(entry) == None

\* The except branch of the translation: the original title is kept.
TitleOnError(entry) == entry.title

\* Lines 113-129 from entries[idx] on, up to the next await, an exception, or
\* the end of the loop, where post_dict[feed_label] = post_list and
\* save_config opens the file.
Awaited_All(t) == {k \in t.idx..Len(t.entries) : IsStr(t.entries[k].title)}

\* "zh_title = await translate_title(entry.title)": the call for entries[idx]
\* is made and awaited on the spot.
Awaited(t) == {t.idx}

RECURSIVE Loop(_)
RECURSIVE AppendEntry(_, _)
Loop(t) ==
    IF t.idx > Len(t.entries)
    THEN [t EXCEPT !.post_dict = DictSet(t.post_dict, t.feed_label, t.post_list),
                   !.pc = "save", !.opened = TRUE]
    ELSE IF IsStr(t.entries[t.idx].title)
    THEN [t EXCEPT !.pc = "translate", !.inflight = Awaited(t)]
    ELSE AppendEntry(t, t.entries[t.idx].title)

Appended_Front(post_list, e) == <<e>> \o post_list

\* post_list.append({...})
Appended(post_list, e) == Append(post_list, e)

\* Lines 125-127 for entries[idx] with its title settled.
AppendEntry(t, zh_title) ==
    LET entry == t.entries[t.idx]
        d == FormatDate(entry.updated)
    IN  IF d.raised THEN Raise(t, "ValueError")
        ELSE Loop([t EXCEPT
                !.post_list = Appended(@, [title |-> zh_title, updated |-> d.text,
                                           link |-> entry.link]),
                !.idx = @ + 1])

NoFeedData_Never(feed_data) == FALSE

\* "if not feed_data:"
NoFeedData(feed_data) == ~Truthy(feed_data)

\* Lines 99-111: fetch_feed_data returns (or raises), the empty check, the
\* parse and the label; then the loop.
OnResponse(t, r) ==
    IF r.kind = "ClientError" THEN Raise(t, "ClientError")
    ELSE LET f == FetchReturn(r, t.last_modified, t.etag)
             t1 == [t EXCEPT !.status = r.status,
                             !.new_last_modified = f.new_last_modified,
                             !.new_etag = f.new_etag]
         IN  IF NoFeedData(f.feed_data) THEN Return(t1, t1.post_dict)
             ELSE LET feed == FeedParse(f.feed_data)
                      t2 == [t1 EXCEPT !.parsed = TRUE]
                  IN  IF feed.raised THEN Raise(t2, "ParseError")
                      ELSE Loop([t2 EXCEPT !.feed_label = FeedLabel(feed),
                                           !.entries = feed.entries])

\* Lines 116-121: translate_title returned (ok) or raised.
OnTranslated(t, ok) ==
    LET entry == t.entries[t.idx]
        t1 == [t EXCEPT !.translated = @ + 1,
                        !.inflight = @ \ {t.idx},
                        !.fellback = IF ok THEN @ ELSE @ \cup {t.idx}]
    IN  AppendEntry(t1, IF ok THEN TranslatedText(entry.title) ELSE TitleOnError(entry))

\* ------------------------------------------------------- get_all_feeds
GatherDone_FirstException(ts) ==
    \/ \A i \in 1..Len(ts) : Terminal(ts[i])
    \/ \E i \in 1..Len(ts) : ts[i].pc = "raised"

\* asyncio.gather(*tasks, return_exceptions=True) is done when every
\* coroutine has returned or raised.
GatherDone(ts) == \A i \in 1..Len(ts) : Terminal(ts[i])

RECURSIVE MergeResults_FirstWins(_, _, _)
MergeResults_FirstWins(ts, i, content_dict) ==
    IF i > Len(ts) THEN content_dict
    ELSE MergeResults_FirstWins(ts, i + 1,
            IF ts[i].pc = "returned" THEN DictUpdate(ts[i].result, content_dict)
            ELSE content_dict)

\* Lines 138-141: results come in the order of urls; a raised exception is
\* no dict and is skipped.
RECURSIVE MergeResults(_, _, _)
MergeResults(ts, i, content_dict) ==
    IF i > Len(ts) THEN content_dict
    ELSE MergeResults(ts, i + 1,
            IF ts[i].pc = "returned" THEN DictUpdate(content_dict, ts[i].result)
            ELSE content_dict)

\* ---------------------------------------------------------------- state
\* Two requests served by show_feeds, each with an event loop of its own.
Calls == {"request1", "request2"}

VARIABLES
    files,          \* the Data directory: path -> [exists, data]
    phase,          \* per call: "idle", "running" (in gather), "returned"
    tasks,          \* per call: the get_feed_data coroutines, in urls order
    content_dict,   \* per call: what get_all_feeds returned
    done,           \* per call: the coroutines in the order they finished
    requests,       \* per URL: GET requests sent so far
    started,        \* coroutines created so far, over all calls
    saved,          \* per path: the arguments of the last direct save_config
    got             \* what the last direct load_config returned

vars == <<files, phase, tasks, content_dict, done, requests, started, saved, got>>

Entry0 == [title |-> Str("ni hao"), updated |-> Str("2024/01/05 13:04:05"),
           link |-> Str("https://redd.it/0")]
\* A record an earlier run of get_feed_data left behind.
CachedFile == [exists |-> TRUE,
               data |-> JsonDump(LM1, ET1, "r/LifeProTips" :> <<Entry0>>)]
\* A record whose entries were removed by hand, validators kept.
ClearedFile == [exists |-> TRUE, data |-> JsonDump(LM1, None, EmptyDict)]
\* A record cut short.
BrokenFile == [exists |-> TRUE, data |-> <<Punct("{")>>]
InitFiles == {NoFile, CachedFile, ClearedFile, BrokenFile}
PathA == get_config_path(UrlA).path

NotSaved == [set |-> FALSE, last_modified |-> None, etag |-> None,
             post_dict |-> EmptyDict]
NotLoaded == [called |-> FALSE, url |-> UrlA, result |-> LoadRaise("")]

UrlLists == UNION {[1..n -> URLS] : n \in 1..MaxUrls}

Init ==
    /\ \E f \in InitFiles : files = [p \in PATHS |-> IF p = PathA THEN f ELSE NoFile]
    /\ phase = [c \in Calls |-> "idle"]
    /\ tasks = [c \in Calls |-> <<>>]
    /\ content_dict = [c \in Calls |-> EmptyDict]
    /\ done = [c \in Calls |-> <<>>]
    /\ requests = [u \in URLS |-> 0]
    /\ started = 0
    /\ saved = [p \in PATHS |-> NotSaved]
    /\ got = NotLoaded

\* The event loop of call c is inside save_config (synchronous code).
Busy(c) == \E i \in 1..Len(tasks[c]) : tasks[c][i].pc = "save"

PathOf(t) == get_config_path(t.url).path

\* What a step of coroutine i of call c leaves behind: t2 is the coroutine
\* after the step; reaching "save" means open(config_path, "w") has run.
Step(c, i, t2) ==
    /\ tasks' = [tasks EXCEPT ![c][i] = t2]
    /\ files' = IF t2.pc = "save" THEN OpenW(files, PathOf(t2)) ELSE files
    /\ done' = IF Terminal(t2) THEN [done EXCEPT ![c] = Append(@, i)] ELSE done
    /\ requests' = IF t2.pc = "fetch" /\ tasks[c][i].pc = "start"
                   THEN [requests EXCEPT ![t2.url] = @ + 1] ELSE requests
    /\ UNCHANGED <<phase, content_dict, started, saved, got>>

\* get_all_feeds(urls) up to the await of gather: one coroutine per URL.
\* The coroutines and the result of a call that has returned are gone by
\* the time another request comes in.
NewCall(c, urls) ==
    /\ phase[c] = "idle"
    /\ started + Len(urls) <= MaxTasks
    /\ started' = started + Len(urls)
    /\ phase' = [phase EXCEPT ![c] = "running"]
    /\ tasks' = [d \in Calls |->
                    IF d = c THEN [i \in 1..Len(urls) |-> NewTask(urls[i])]
                    ELSE IF phase[d] = "returned" THEN <<>> ELSE tasks[d]]
    /\ done' = [d \in Calls |-> IF phase[d] = "returned" THEN <<>> ELSE done[d]]
    /\ content_dict' = [d \in Calls |->
                    IF phase[d] = "returned" THEN EmptyDict ELSE content_dict[d]]
    /\ UNCHANGED <<files, requests, saved, got>>

\* show_feeds on a server that serves one request at a time.
StartCall(c, urls) ==
    /\ \A d \in Calls : phase[d] # "running"
    /\ NewCall(c, urls)

\* The first run of coroutine i; the loop starts the coroutines in order.
Load(c, i) ==
    /\ phase[c] = "running" /\ ~Busy(c)
    /\ tasks[c][i].pc = "start"
    /\ \A j \in 1..(i - 1) : tasks[c][j].pc # "start"
    /\ \E t2 \in {OnStart(tasks[c][i], files)} : Step(c, i, t2)

\* The response (or the failure) of the GET of coroutine i arrives.
Response(c, i, r) ==
    /\ phase[c] = "running" /\ ~Busy(c)
    /\ \A j \in 1..Len(tasks[c]) : tasks[c][j].pc # "start"
    /\ tasks[c][i].pc = "fetch"
    /\ \E t2 \in {OnResponse(tasks[c][i], r)} : Step(c, i, t2)

\* translate_title of coroutine i returns (ok) or raises.
Translated(c, i, ok) ==
    /\ phase[c] = "running" /\ ~Busy(c)
    /\ tasks[c][i].pc = "translate"
    /\ \E t2 \in {OnTranslated(tasks[c][i], ok)} : Step(c, i, t2)

\* json.dump and the close of the file in save_config; get_feed_data returns.
Write(c, i) ==
    /\ phase[c] = "running"
    /\ tasks[c][i].pc = "save"
    /\ files' = DumpAndClose(files, PathOf(tasks[c][i]), tasks[c][i].new_last_modified,
                             tasks[c][i].new_etag, tasks[c][i].post_dict)
    /\ tasks' = [tasks EXCEPT ![c][i] =
                    Return([@ EXCEPT !.written = TRUE], @.post_dict)]
    /\ done' = [done EXCEPT ![c] = Append(@, i)]
    /\ UNCHANGED <<phase, content_dict, requests, started, saved, got>>

\* gather is done: get_all_feeds merges the results and returns.
Gather(c) ==
    /\ phase[c] = "running"
    /\ GatherDone(tasks[c])
    /\ content_dict' = [content_dict EXCEPT ![c] = MergeResults(tasks[c], 1, EmptyDict)]
    /\ phase' = [phase EXCEPT ![c] = "returned"]
    /\ UNCHANGED <<files, tasks, done, requests, started, saved, got>>

Next ==
    \/ \E c \in Calls, urls \in UrlLists : StartCall(c, urls)
    \/ \E c \in Calls : \E i \in 1..Len(tasks[c]) : Load(c, i)
    \/ \E c \in Calls : \E i \in 1..Len(tasks[c]) : \E r \in RESPONSES : Response(c, i, r)
    \/ \E c \in Calls : \E i \in 1..Len(tasks[c]) : \E ok \in BOOLEAN : Translated(c, i, ok)
    \/ \E c \in Calls : \E i \in 1..Len(tasks[c]) : Write(c, i)
    \/ \E c \in Calls : Gather(c)

\* One request is served at a time.
Spec == Init /\ [][Next]_vars

\* show_feeds on a threaded server: a request comes in while another is
\* being served.  Each request asks for one feed.
ThreadCall(c, feed_url) == NewCall(c, <<feed_url>>)

InitThreads ==
    /\ \E f \in {NoFile, ClearedFile} :
          files = [p \in PATHS |-> IF p = PathA THEN f ELSE NoFile]
    /\ phase = [c \in Calls |-> "idle"]
    /\ tasks = [c \in Calls |-> <<>>]
    /\ content_dict = [c \in Calls |-> EmptyDict]
    /\ done = [c \in Calls |-> <<>>]
    /\ requests = [u \in URLS |-> 0]
    /\ started = 0
    /\ saved = [p \in PATHS |-> NotSaved]
    /\ got = NotLoaded

NextThreads ==
    \/ \E c \in Calls, feed_url \in URLS : ThreadCall(c, feed_url)
    \/ \E c \in Calls : \E i \in 1..Len(tasks[c]) : Load(c, i)
    \/ \E c \in Calls : \E i \in 1..Len(tasks[c]) : \E r \in RESPONSES : Response(c, i, r)
    \/ \E c \in Calls : \E i \in 1..Len(tasks[c]) : \E ok \in BOOLEAN : Translated(c, i, ok)
    \/ \E c \in Calls : \E i \in 1..Len(tasks[c]) : Write(c, i)
    \/ \E c \in Calls : Gather(c)

\* Requests served by threads of one process, overlapping at will.
SpecThreads == InitThreads /\ [][NextThreads]_vars

\* ---------------------------------------------------------- properties
TaskIds == {<<c, i>> \in Calls \X (1..MaxTasks) : i <= Len(tasks[c])}
Task(id) == tasks[id[1]][id[2]]
\* Coroutine id exists before and after the step.
Lives(id) == id[2] <= Len(tasks[id[1]]) /\ id[2] <= Len(tasks'[id[1]])
TaskAfter(id) == tasks'[id[1]][id[2]]
\* Coroutine id makes its first run in this step.
FirstRun(id) == Lives(id) /\ Task(id).pc = "start" /\ TaskAfter(id).pc # "start"

\* The record on disk for feed_url is readable and holds entries.
HasEntries(fs, feed_url) ==
    /\ ~load_config(fs, feed_url).raised
    /\ DOMAIN load_config(fs, feed_url).post_dict # {}

\* C1: a sync that starts while the record of its URL holds a non-empty
\* post_dict returns in that same run exactly the persisted post_dict, having
\* sent no request, called neither parser nor translator, and left the files
\* alone.
C1_CacheHitShortCircuit ==
    [][\A id \in Calls \X (1..MaxTasks) :
          (FirstRun(id) /\ HasEntries(files, Task(id).url)) =>
             /\ TaskAfter(id).pc = "returned"
             /\ TaskAfter(id).result = load_config(files, Task(id).url).post_dict
             /\ ~TaskAfter(id).requested /\ requests' = requests
             /\ ~TaskAfter(id).parsed /\ TaskAfter(id).translated = 0
             /\ ~TaskAfter(id).opened /\ files' = files]_vars

\* A sync was served from a record that an earlier sync fetched and saved.
C1_Witness ==
    \E id \in TaskIds :
        /\ Task(id).hit /\ Task(id).pc = "returned"
        /\ DOMAIN Task(id).result # {}
        /\ requests[Task(id).url] = 1

\* The response of the sync was an HTTP failure: neither 304 nor 2xx.
HttpFailure(t) == t.status # 0 /\ t.status # 304 /\ t.status \notin 200..299

\* The sync failed in the sense of the error taxonomy.
SyncFailed(t) == t.pc = "raised" \/ HttpFailure(t)

CallTasks(c) == {tasks[c][i] : i \in 1..Len(tasks[c])}

\* C2: get_all_feeds returns a mapping whose labels are exactly those of the
\* syncs that succeeded; a failed sync (configuration error, unreadable
\* record, network or HTTP failure, parse failure) contributes no label.
C2_PartialAggregation ==
    \A c \in Calls :
        phase[c] = "returned" =>
            DOMAIN content_dict[c] =
                UNION {DOMAIN t.result : t \in {u \in CallTasks(c) : ~SyncFailed(u)}}

\* Everything the sync depends on went well: a 2xx response, a body that
\* parsed, and a well-formed date in every item.
WouldSucceed(t) ==
    /\ t.status \in 200..299 /\ t.parsed /\ t.feed_label # ""
    /\ \A k \in 1..Len(t.entries) : ~FormatDate(t.entries[k].updated).raised

C5_HttpFailureAborts ==
    \A id \in TaskIds :
        HttpFailure(Task(id)) =>
            /\ ~Task(id).parsed /\ ~Task(id).opened
            /\ Task(id).pc = "raised"

\* C6: a 304 ends the sync in the run that receives it: the mapping loaded
\* before is returned, no parser, translator or save_config call is made, and
\* the files stay as they are.
C6_NotModified ==
    [][\A id \in Calls \X (1..MaxTasks) :
          (Lives(id) /\ Task(id).pc = "fetch" /\ TaskAfter(id).status = 304) =>
             /\ TaskAfter(id).pc = "returned"
             /\ TaskAfter(id).result = Task(id).post_dict
             /\ ~TaskAfter(id).parsed /\ TaskAfter(id).translated = 0
             /\ ~TaskAfter(id).opened /\ ~TaskAfter(id).written
             /\ files' = files]_vars

\* A conditional request (validators on disk) was answered 304.
C6_Witness ==
    \E id \in TaskIds :
        /\ Task(id).status = 304 /\ Task(id).pc = "returned"
        /\ Task(id).headers # {}
        /\ files[PathOf(Task(id))] = ClearedFile

\* C8: where the translation of a string title failed, the entry carries the
\* original title; the sync goes on with the next items, never raises
\* because of the translation, and with well-formed dates it ends returned,
\* its record written, one entry per item.
C8_TranslationFallback ==
    \A id \in TaskIds :
        LET t == Task(id)
        IN  t.fellback # {} =>
              /\ \A k \in t.fellback :
                    /\ IsStr(t.entries[k].title)
                    /\ k <= Len(t.post_list) => t.post_list[k].title = t.entries[k].title
                    /\ k > Len(t.post_list) =>
                          /\ k = t.idx /\ t.pc = "raised"
              /\ t.pc = "raised" =>
                    /\ t.exc = "ValueError"
                    /\ FormatDate(t.entries[t.idx].updated).raised
              /\ (Terminal(t) /\ WouldSucceed(t)) =>
                    /\ t.pc = "returned" /\ t.written
                    /\ t.result[t.feed_label] = t.post_list
                    /\ Len(t.post_list) = Len(t.entries)

\* The first title fell back, the second item was still processed, and the
\* sync returned with its record written.
C8_Witness ==
    \E id \in TaskIds :
        /\ 1 \in Task(id).fellback /\ Len(Task(id).entries) = 2
        /\ Task(id).pc = "returned" /\ Task(id).written
        /\ Len(Task(id).result[Task(id).feed_label]) = 2

\* Position of coroutine i in the completion order of call c.
Rank(c, i) == CHOOSE k \in 1..Len(done[c]) : done[c][k] = i

\* The coroutines of call c that returned a mapping with the label.
Holders(c, label) ==
    {i \in 1..Len(tasks[c]) :
        tasks[c][i].pc = "returned" /\ label \in DOMAIN tasks[c][i].result}

\* C9 as stated: on a label collision the returned mapping keeps the entries
\* of the sync that completed last.
C9_LastCompletedWins ==
    \A c \in Calls :
        phase[c] = "returned" =>
            \A label \in DOMAIN content_dict[c] :
                \A i \in Holders(c, label) :
                    (\A j \in Holders(c, label) : Rank(c, j) <= Rank(c, i)) =>
                        content_dict[c][label] = tasks[c][i].result[label]

\* C9 amended: on a label collision the returned mapping keeps the entries
\* of the sync whose URL comes last in the list, whatever the completion
\* order.
C9_LastListedWins ==
    \A c \in Calls :
        phase[c] = "returned" =>
            \A label \in DOMAIN content_dict[c] :
                \A i \in Holders(c, label) :
                    (\A j \in Holders(c, label) : j <= i) =>
                        content_dict[c][label] = tasks[c][i].result[label]

\* Two syncs returned different entries under one label, and the one listed
\* last completed first.
C9_Witness ==
    \E c \in Calls :
        /\ phase[c] = "returned" /\ Len(tasks[c]) = 2
        /\ \E label \in DOMAIN content_dict[c] :
              /\ Holders(c, label) = {1, 2}
              /\ tasks[c][1].result[label] # tasks[c][2].result[label]
              /\ Rank(c, 2) < Rank(c, 1)

\* C4: no reader ever finds a record half-written: load_config never fails
\* to decode a file that save_config is writing or has written.
C4_AtomicSave ==
    \A id \in TaskIds : Task(id).exc # "JSONDecodeError"

\* Two writers left a file that is neither empty nor one complete record.
C4_MixedRecord ==
    \E p \in PATHS :
        /\ files[p].exists /\ files[p].data # <<>>
        /\ JsonLoad(files[p].data).raised
        /\ \A c \in Calls : ~Busy(c)

\* C7 as stated: at most one GET is ever sent for a feed URL.
C7_FetchedAtMostOnce ==
    \A u \in URLS : requests[u] <= 1

\* After this step no sync of feed_url sends a request: the record is either
\* a cache hit or unreadable.
NoRequestFrom(fs, feed_url) ==
    load_config(fs, feed_url).raised \/ HasEntries(fs, feed_url)

\* C7 amended: a GET is sent only by a sync that found no record, or a record
\* without entries, when it loaded; and once save_config has written the
\* record of a URL, a sync of that URL that loads it sends no GET.  Syncs that
\* load before the first save ends, or after syncs that failed or got a 304,
\* each send their own GET.
C7_FetchedOnlyWithoutEntries ==
    [][\A id \in Calls \X (1..MaxTasks) :
          /\ (FirstRun(id) /\ TaskAfter(id).requested) =>
                ~HasEntries(files, Task(id).url)
          /\ (FirstRun(id) /\ HasEntries(files, Task(id).url)) =>
                requests' = requests
          /\ (Lives(id) /\ Task(id).pc = "save" /\ TaskAfter(id).written) =>
                NoRequestFrom(files', Task(id).url)]_vars

\* A second request for a URL was answered from the record the first request
\* had fetched and saved: one GET in all.
C7_Witness ==
    /\ phase["request1"] = "returned"
    /\ \E id \in TaskIds :
          /\ id[1] = "request2"
          /\ Task(id).hit /\ requests[Task(id).url] = 1
          /\ files[PathOf(Task(id))] # CachedFile

\* ------------------------------------------------- ConfigStore on its own
\* save_config and load_config called directly, one call at a time, with
\* records of every shape: validators absent, empty or set; mappings with
\* no label, one label (with or without entries) or two.
EntryNone == [title |-> None, updated |-> Str("2024/02/29 23:59:59"),
              link |-> Str("https://redd.it/2")]
StoreValidators == {None, LM1, Str("")}
StoreEtags == {None, ET1}
StoreDicts ==
    { EmptyDict,
      "N/A" :> <<>>,
      "r/LifeProTips" :> <<Entry0>>,
      ("r/LifeProTips" :> <<Entry0, EntryNone>>) @@ ("N/A" :> <<Entry0>>) }

StoreSave(feed_url, last_modified, etag, post_dict) ==
    /\ files' = save_config(files, feed_url, last_modified, etag, post_dict)
    /\ saved' = IF get_config_path(feed_url).raised THEN saved
                ELSE [saved EXCEPT ![get_config_path(feed_url).path] =
                        [set |-> TRUE, last_modified |-> last_modified,
                         etag |-> etag, post_dict |-> post_dict]]
    /\ got' = NotLoaded
    /\ UNCHANGED <<phase, tasks, content_dict, done, requests, started>>

StoreLoad(feed_url) ==
    /\ got' = [called |-> TRUE, url |-> feed_url,
               result |-> load_config(files, feed_url)]
    /\ UNCHANGED <<files, saved, phase, tasks, content_dict, done, requests, started>>

NextStore ==
    \/ \E feed_url \in URLS, last_modified \in StoreValidators, etag \in StoreEtags,
          post_dict \in StoreDicts : StoreSave(feed_url, last_modified, etag, post_dict)
    \/ \E feed_url \in URLS : StoreLoad(feed_url)

SpecStore == Init /\ [][NextStore]_vars

\* C10: load_config on a URL of the pattern, after save_config on that URL
\* and no write in between, returns the saved last_modified, etag and
\* post_dict.
C10_RoundTrip ==
    (got.called /\ ~get_config_path(got.url).raised) =>
        LET s == saved[get_config_path(got.url).path]
        IN  s.set =>
              /\ ~got.result.raised
              /\ got.result.last_modified = s.last_modified
              /\ got.result.etag = s.etag
              /\ got.result.post_dict = s.post_dict

\* A record with an absent validator, two labels and a non-string title came
\* back from the file that held another record before.
C10_Witness ==
    /\ got.called /\ got.url = UrlA
    /\ saved[PathA].set /\ saved[PathA].last_modified = None
    /\ got.result.etag = ET1
    /\ DOMAIN got.result.post_dict = {"r/LifeProTips", "N/A"}
    /\ got.result.post_dict["r/LifeProTips"][2].title = None

\* ---------------------------------------------------------------- C11
\* C11: the request a sync sends carries If-Modified-Since only if the record
\* on disk holds a last_modified string and If-None-Match only if it holds an
\* etag string; a sync whose category has no record on disk sends neither.
C11_ConditionalHeaders ==
    [][\A id \in Calls \X (1..MaxTasks) :
          (FirstRun(id) /\ TaskAfter(id).requested) =>
             LET cfg == load_config(files, Task(id).url)
                 p == get_config_path(Task(id).url)
             IN  /\ "If-Modified-Since" \in TaskAfter(id).headers
                        => IsStr(cfg.last_modified)
                 /\ "If-None-Match" \in TaskAfter(id).headers => IsStr(cfg.etag)
                 /\ ~files[p.path].exists => TaskAfter(id).headers = {}]_vars

\* A request went out with the one validator its record held, and another
\* went out bare because its category had no record.
C11_Witness ==
    \E id1 \in TaskIds, id2 \in TaskIds :
        /\ Task(id1).requested /\ Task(id1).headers = {"If-Modified-Since"}
        /\ Task(id1).last_modified = LM1 /\ Task(id1).etag = None
        /\ Task(id2).requested /\ Task(id2).headers = {}
        /\ Task(id2).last_modified = Int0

\* ---------------------------------------------------------------- C12
\* A value that stands for "no validator": not a string, and false under
\* "if last_modified:".
Absent(v) == ~IsStr(v) /\ ~Truthy(v)

\* C12: load_config on a URL of the pattern whose category has no file on
\* disk does not raise, returns an empty post_dict with last_modified and
\* etag both absent, and leaves the file system as it was (no file appears).
C12_LoadWithoutRecord ==
    [][\A feed_url \in URLS :
          LET p == get_config_path(feed_url)
          IN  (/\ got' # got /\ got'.called /\ got'.url = feed_url
               /\ ~p.raised /\ ~files[p.path].exists) =>
                  /\ ~got'.result.raised
                  /\ got'.result.post_dict = EmptyDict
                  /\ Absent(got'.result.last_modified)
                  /\ Absent(got'.result.etag)
                  /\ files' = files /\ ~files'[p.path].exists]_vars

\* load_config ran for a category without a file, next to a category that
\* has one, and there is still no file for it.
C12_Witness ==
    /\ got.called /\ ~get_config_path(got.url).raised
    /\ ~files[get_config_path(got.url).path].exists
    /\ ~got.result.raised /\ got.result.post_dict = EmptyDict
    /\ \E path \in PATHS : files[path].exists /\ saved[path].set

\* ---------------------------------------------------------------- C13
\* The feed URL matches the category pattern of get_category_from_url.
Matches(feed_url) == ~get_category_from_url(feed_url).raised

\* The coroutines of a call whose URL matches the pattern, in list order.
MatchingTasks(ts) == SelectSeq(ts, LAMBDA t : Matches(t.url))

\* C13: a sync of a URL that does not match the category pattern raises in
\* its first run, whatever the files hold, with no request sent and no file
\* touched; and get_all_feeds returns what it would return without that URL
\* in its list.
C13_BadUrlFailsFast ==
    [][/\ \A id \in Calls \X (1..MaxTasks) :
             (FirstRun(id) /\ ~Matches(Task(id).url)) =>
                /\ TaskAfter(id).pc = "raised"
                /\ TaskAfter(id).exc = "AttributeError"
                /\ \A path \in PATHS, f \in InitFiles :
                       OnStart(Task(id), [files EXCEPT ![path] = f]) = TaskAfter(id)
                /\ ~TaskAfter(id).requested /\ requests' = requests
                /\ ~TaskAfter(id).opened /\ files' = files
       /\ \A c \in Calls :
             (phase[c] = "running" /\ phase'[c] = "returned") =>
                content_dict'[c] = MergeResults(MatchingTasks(tasks[c]), 1, EmptyDict)]_vars

\* get_all_feeds returned the entries of a good feed listed after a URL that
\* does not match the pattern.
C13_Witness ==
    \E c \in Calls :
        /\ phase[c] = "returned" /\ Len(tasks[c]) = 2
        /\ ~Matches(tasks[c][1].url) /\ tasks[c][1].pc = "raised"
        /\ tasks[c][2].written
        /\ content_dict[c] = tasks[c][2].result
        /\ DOMAIN content_dict[c] # {}

\* ---------------------------------------------------------------- C14
\* C14: a file changes (is created, truncated or written) only in a step of
\* a sync of that category which is saving, or has saved, after a response
\* that was no failure; a sync that fails (raises, or meets an HTTP failure)
\* never changes a file.
C14_AbortLeavesRecord ==
    [][\A path \in PATHS :
          files'[path] # files[path] =>
             \E id \in Calls \X (1..MaxTasks) :
                 /\ Lives(id) /\ TaskAfter(id) # Task(id)
                 /\ PathOf(Task(id)) = path
                 /\ TaskAfter(id).pc \in {"save", "returned"}
                 /\ ~SyncFailed(TaskAfter(id))]_vars

\* ------------------------------------------------- one feed, asked again
\* show_feeds for lists of one and the same feed, one request after the
\* other; the coroutines of a call that has returned are kept for reference.
RepeatLists == UNION {[1..n -> {UrlA}] : n \in 1..MaxUrls}

RepeatCall(c, urls) ==
    /\ phase[c] = "idle"
    /\ \A d \in Calls : phase[d] # "running"
    /\ c = "request2" => phase["request1"] = "returned"
    /\ started + Len(urls) <= MaxTasks + 1
    /\ started' = started + Len(urls)
    /\ phase' = [phase EXCEPT ![c] = "running"]
    /\ tasks' = [tasks EXCEPT ![c] = [i \in 1..Len(urls) |-> NewTask(urls[i])]]
    /\ UNCHANGED <<files, content_dict, done, requests, saved, got>>

\* What the server may answer for this feed: two titled items, or no item
\* at all.
RepeatResponses ==
    { ClientError,
      Resp(304, BodyEmpty, None, None),
      Resp(200, BodyFeedC, None, ET1),
      Resp(200, BodyNoItems, LM1, None) }

NextRepeat ==
    \/ \E c \in Calls, urls \in RepeatLists : RepeatCall(c, urls)
    \/ \E c \in Calls : \E i \in 1..Len(tasks[c]) : Load(c, i)
    \/ \E c \in Calls : \E i \in 1..Len(tasks[c]) : \E r \in RepeatResponses : Response(c, i, r)
    \/ \E c \in Calls : \E i \in 1..Len(tasks[c]) : \E ok \in BOOLEAN : Translated(c, i, ok)
    \/ \E c \in Calls : \E i \in 1..Len(tasks[c]) : Write(c, i)
    \/ \E c \in Calls : Gather(c)

SpecRepeat == InitThreads /\ [][NextRepeat]_vars

\* ---------------------------------------------------------------- C15
\* The syncs of the first request that completed the Modified path: they
\* saved the record, and were over before the second request came in.
Savers == {i \in 1..Len(tasks["request1"]) : tasks["request1"][i].written}

\* The syncs of the second request that have started.
Followers ==
    {j \in 1..Len(tasks["request2"]) : tasks["request2"][j].pc # "start"}

\* The one of the savers that saved last.
LastSaver(i) == \A k \in Savers : Rank("request1", k) <= Rank("request1", i)

\* What each saver saved holds one label; a 304 is only ever met by a sync
\* that loaded no entries.
OneLabelSaved ==
    /\ \A i \in Savers : Cardinality(DOMAIN tasks["request1"][i].post_dict) = 1
    /\ \A id \in TaskIds : Task(id).status = 304 => Task(id).cached = EmptyDict

\* C15 as stated: once a sync of the URL has completed the Modified path,
\* every sync of that URL that starts afterwards is a cache hit, sends no
\* request and returns the entries that sync stored.
C15_SameEntriesAfterSync ==
    /\ OneLabelSaved
    /\ \A i \in Savers, j \in Followers :
          /\ tasks["request2"][j].hit /\ ~tasks["request2"][j].requested
          /\ tasks["request2"][j].pc = "returned"
          /\ tasks["request2"][j].result = tasks["request1"][i].result

\* C15, amended: once a sync of the URL has completed the Modified path, the
\* record holds one label, and every sync of that URL that starts afterwards
\* is a cache hit, sends no request and returns the entries of the sync that
\* saved the record last; a 304 is met only by a sync that loaded no entries.
C15_EntriesOfLastSave ==
    /\ OneLabelSaved
    /\ \A i \in Savers, j \in Followers :
          /\ tasks["request2"][j].hit /\ ~tasks["request2"][j].requested
          /\ tasks["request2"][j].pc = "returned"
          /\ LastSaver(i) => tasks["request2"][j].result = tasks["request1"][i].result
          /\ Cardinality(DOMAIN tasks["request2"][j].result) = 1

\* Two syncs of one request saved different entries for the feed, one of
\* them none at all, and a sync of the next request was served from the
\* record.
C15_Witness ==
    \E i \in Savers, k \in Savers, j \in Followers :
        /\ LastSaver(i) /\ k # i
        /\ tasks["request1"][k].result # tasks["request1"][i].result
        /\ tasks["request1"][i].entries = <<>>
        /\ tasks["request2"][j].hit
        /\ tasks["request2"][j].result = tasks["request1"][i].result

\* ---------------------------------------------------------------- C16
\* The translate_title calls awaited at this moment, over all syncs.
InFlightTranslations ==
    UNION {{<<id, k>> : k \in Task(id).inflight} : id \in TaskIds}

\* The syncs that have started and neither returned nor raised.
InFlightSyncs ==
    {id \in TaskIds : Task(id).pc \in {"fetch", "translate", "save"}}

\* C16: a sync awaits at most one translation at a time, that of the item
\* it has reached, with every item before it already settled and appended;
\* so the translations in flight are never more than the syncs in flight.
C16_OneTranslationAtATime ==
    /\ \A id \in TaskIds :
          /\ Cardinality(Task(id).inflight) <= 1
          /\ Task(id).inflight # {} =>
                /\ Task(id).pc = "translate"
                /\ Task(id).inflight = {Task(id).idx}
                /\ Len(Task(id).post_list) = Task(id).idx - 1
          /\ Task(id).pc = "translate" => Task(id).inflight # {}
    /\ Cardinality(InFlightTranslations) <= Cardinality(InFlightSyncs)

\* Two syncs each await a translation, one of them for its second titled
\* item after the first came back.
C16_Witness ==
    \E id1 \in TaskIds, id2 \in TaskIds :
        /\ id1 # id2
        /\ Task(id1).inflight = {2} /\ Task(id1).translated = 1
        /\ Task(id2).inflight = {1}

\* ---------------------------------------------------------------- C17
\* The Entry that item k of the parsed feed of sync t is due: the title
\* translated, or as it came when it is no string or its translation failed.
EntryOf(t, k) ==
    [title |-> IF IsStr(t.entries[k].title) /\ k \notin t.fellback
               THEN TranslatedText(t.entries[k].title)
               ELSE t.entries[k].title,
     updated |-> FormatDate(t.entries[k].updated).text,
     link |-> t.entries[k].link]

\* C17: when a sync completes the Modified path, the sequence under its
\* label holds one Entry per parsed item, in the order of the items, in the
\* mapping it returns and in the record as it is on disk at that moment.
C17_OneEntryPerItemInOrder ==
    [][\A id \in Calls \X (1..MaxTasks) :
          (Lives(id) /\ ~Task(id).written /\ TaskAfter(id).written) =>
             LET t == TaskAfter(id)
                 expected == [k \in 1..Len(t.entries) |-> EntryOf(t, k)]
                 record == load_config(files', t.url)
             IN  /\ t.pc = "returned"
                 /\ t.feed_label \in DOMAIN t.result
                 /\ t.result[t.feed_label] = expected
                 /\ ~record.raised
                 /\ t.feed_label \in DOMAIN record.post_dict
                 /\ record.post_dict[t.feed_label] = expected]_vars

\* A sync saved two entries in item order, the first with the title its
\* failed translation left, the second with a title that is no string.
C17_Witness ==
    \E id \in TaskIds :
        /\ Task(id).written /\ Task(id).fellback = {1}
        /\ Len(Task(id).result[Task(id).feed_label]) = 2
        /\ Task(id).result[Task(id).feed_label][1].title = Item1.title
        /\ Task(id).result[Task(id).feed_label][2].title = None
        /\ load_config(files, Task(id).url).post_dict = Task(id).result

\* ---------------------------------------------------------------- C18
\* A step of a call that is under way: a first run, the answer to a GET or
\* to a translate call, the write inside save_config, the return of
\* get_all_feeds once gather is done.
Progress ==
    \/ \E c \in Calls : \E i \in 1..Len(tasks[c]) : Load(c, i)
    \/ \E c \in Calls : \E i \in 1..Len(tasks[c]) : \E r \in RepeatResponses : Response(c, i, r)
    \/ \E c \in Calls : \E i \in 1..Len(tasks[c]) : \E ok \in BOOLEAN : Translated(c, i, ok)
    \/ \E c \in Calls : \E i \in 1..Len(tasks[c]) : Write(c, i)
    \/ \E c \in Calls : Gather(c)

\* The event loop runs what is ready, and every GET and every translate
\* call comes back, with a result or with an exception: as long as a step of
\* a running call can be taken, one is taken. Nothing obliges a request to
\* come in.
SpecRepeatFair == SpecRepeat /\ WF_vars(Progress)

\* C18: a get_all_feeds call that is running eventually returns, and a call
\* that has returned has no sync left that has not returned or raised.
C18_FanOutCompletes ==
    /\ \A c \in Calls : (phase[c] = "running") ~> (phase[c] = "returned")
    /\ [](\A c \in Calls :
            phase[c] = "returned" => \A i \in 1..Len(tasks[c]) : Terminal(tasks[c][i]))

\* get_all_feeds returned after a fan-out of two syncs, one that raised on
\* its GET and one that translated, saved and returned.
C18_Witness ==
    \E c \in Calls :
        /\ phase[c] = "returned" /\ Len(tasks[c]) = 2
        /\ \E i, j \in 1..2 :
              /\ tasks[c][i].pc = "raised" /\ tasks[c][i].exc = "ClientError"
              /\ tasks[c][j].written /\ tasks[c][j].translated = 2
              /\ Rank(c, i) < Rank(c, j)

====
